---- MODULE Spec2Model ----
(***************************************************************************)
(* Model of tdameritrade_api/private/api_wrapper.py: BaseTDAAPIWrapper.    *)
(*                                                                         *)
(* Every public method of the wrapper turns its arguments into a request   *)
(* (verb, url, query parameters, json body) and hands it to the session    *)
(* object the client was constructed with.  The model keeps                *)
(*   - the client instance (self.api_key, self.session, self.account_id),  *)
(*   - the clock read by datetime.datetime.utcnow(),                       *)
(*   - the platform facts the standard library depends on (strftime('%Y')  *)
(*     padding, the local UTC offset used for naive timestamps),           *)
(*   - for each caller, the frame of its current call: the operation, its  *)
(*     arguments, the exception raised and the requests the session got.   *)
(*                                                                         *)
(* Python values are tagged records; a str is a sequence of tokens.  A     *)
(* literal of the source (a path template piece, the host) and a name      *)
(* whose characters no code looks at (a symbol, a status) are one token;   *)
(* characters a conversion produces or must preserve (the digits of a      *)
(* number, of a formatted datetime, of a CUSIP) are one token each.        *)
(* String concatenation is \o.                                             *)
(***************************************************************************)
EXTENDS Integers, Sequences, FiniteSets, TLC

VARIABLES client, ctor, clock, platform, frame, prevq

vars == <<client, ctor, clock, platform, frame, prevq>>

----------------------------------------------------------------------------
(* Bounds of the model                                                     *)

\* the clock takes the values 0..MaxClock (seconds after 2020-01-01T00:00:00)
MaxClock == 2

\* list-valued arguments have at most MaxList elements
MaxList == 2

\* a get_option_chain call supplies at most MaxProvided of its ten optional
\* arguments
MaxProvided == 2

----------------------------------------------------------------------------
(* Python values                                                           *)

PyNone == [ty |-> "NoneType"]

PyStr(s) == [ty |-> "str", v |-> s]

PyInt(n) == [ty |-> "int", v |-> n]

PyBool(b) == [ty |-> "bool", v |-> b]

PyList(l) == [ty |-> "list", v |-> l]

PyDict(d) == [ty |-> "dict", v |-> d]

\* a datetime.datetime; aware = (tzinfo is not None), utcoffset in minutes
PyDT(y, mo, d, h, mi, s, aw, off) ==
    [ty |-> "datetime", year |-> y, month |-> mo, day |-> d, hour |-> h,
     minute |-> mi, second |-> s, aware |-> aw, utcoffset |-> off]

\* an argument the session method is called without
Absent == [ty |-> "absent"]

\* isinstance(v, str)
IsStr(v) == v.ty = "str"

\* bool(v): the truth value Python's `if v:` tests
Truthy(v) ==
    CASE v.ty = "NoneType" -> FALSE
      [] v.ty = "str"      -> Len(v.v) > 0
      [] v.ty = "list"     -> Len(v.v) > 0
      [] v.ty = "int"      -> v.v # 0
      [] v.ty = "bool"     -> v.v
      [] OTHER             -> TRUE

\* {} and d[k] = v
EmptyDict == [k \in {} |-> PyNone]

SetItem(d, k, v) == [y \in DOMAIN d \cup {k} |-> IF y = k THEN v ELSE d[y]]

----------------------------------------------------------------------------
(* Text conversions                                                        *)

DigitChars == <<"0", "1", "2", "3", "4", "5", "6", "7", "8", "9">>

RECURSIVE DecStr(_)
\* decimal digits of a natural number, no padding
DecStr(n) ==
    IF n < 10 THEN <<DigitChars[n + 1]>>
    ELSE DecStr(n \div 10) \o <<DigitChars[(n % 10) + 1]>>

RECURSIVE ZeroPad(_, _)
\* s left-padded with "0" to width w (what %m, %d, %H, %M, %S do)
ZeroPad(s, w) == IF Len(s) >= w THEN s ELSE ZeroPad(<<"0">> \o s, w)

\* str(v) as '{}'.format(v) renders it
Str(v) ==
    CASE v.ty = "str"      -> v.v
      [] v.ty = "int"      -> IF v.v < 0 THEN <<"-">> \o DecStr(0 - v.v)
                              ELSE DecStr(v.v)
      [] v.ty = "NoneType" -> <<"None">>
      [] v.ty = "bool"     -> IF v.v THEN <<"True">> ELSE <<"False">>
      [] OTHER             -> <<"<object>">>

RECURSIVE JoinReversed(_, _)
\* Join as a loop that prepends each element would compute it
JoinReversed(sep, l) ==
    IF Len(l) = 0 THEN <<>>
    ELSE IF Len(l) = 1 THEN l[1].v
    ELSE JoinReversed(sep, Tail(l)) \o sep \o l[1].v

RECURSIVE Join(_, _)
\* sep.join(l) for a sequence l of str values
Join(sep, l) ==
    IF Len(l) = 0 THEN <<>>
    ELSE IF Len(l) = 1 THEN l[1].v
    ELSE l[1].v \o sep \o Join(sep, Tail(l))

----------------------------------------------------------------------------
(* datetime                                                                *)

\* datetime.datetime.min
datetime_min == PyDT(1, 1, 1, 0, 0, 0, FALSE, 0)

\* the naive UTC datetime c seconds after 2020-01-01T00:00:00
utc_at(c) ==
    PyDT(2020, 1, 1, (c \div 3600) % 24, (c \div 60) % 60, c % 60, FALSE, 0)

\* utcnow() evaluated once, when the module is loaded (a default argument
\* value `to_entered_datetime=datetime.datetime.utcnow()`)
utcnow_at_import == utc_at(0)

\* datetime.datetime.utcnow(): the clock, read when it is evaluated
utcnow == utc_at(clock)

\* dt.strftime('%z'): '' for a naive datetime, else sign, hours, minutes
strftime_z(dt) ==
    IF ~dt.aware THEN <<>>
    ELSE LET a == IF dt.utcoffset < 0 THEN 0 - dt.utcoffset ELSE dt.utcoffset
         IN  <<IF dt.utcoffset < 0 THEN "-" ELSE "+">>
             \o ZeroPad(DecStr(a \div 60), 2) \o ZeroPad(DecStr(a % 60), 2)

\* dt.strftime('%Y-%m-%dT%H:%M:%S'); the C library decides whether %Y pads
\* a year below 1000 to four digits
strftime_iso(dt) ==
    (IF platform.pads_year THEN ZeroPad(DecStr(dt.year), 4) ELSE DecStr(dt.year))
    \o <<"-">> \o ZeroPad(DecStr(dt.month), 2)
    \o <<"-">> \o ZeroPad(DecStr(dt.day), 2)
    \o <<"T">> \o ZeroPad(DecStr(dt.hour), 2)
    \o <<":">> \o ZeroPad(DecStr(dt.minute), 2)
    \o <<":">> \o ZeroPad(DecStr(dt.second), 2)

\* days from 1970-01-01 to the civil date y-m-d (proleptic Gregorian)
DaysFromCivil(y, m, d) ==
    LET yy  == IF m <= 2 THEN y - 1 ELSE y
        era == yy \div 400
        yoe == yy - era * 400
        mp  == IF m > 2 THEN m - 3 ELSE m + 9
        doy == (153 * mp + 2) \div 5 + d - 1
        doe == yoe * 365 + yoe \div 4 - yoe \div 100 + doy
    IN  era * 146097 + doe - 719468

\* dt.timestamp(): seconds since the epoch; a naive datetime is taken as
\* local time, an aware one by its own offset
timestamp(dt) ==
    DaysFromCivil(dt.year, dt.month, dt.day) * 86400
    + dt.hour * 3600 + dt.minute * 60 + dt.second
    - 60 * (IF dt.aware THEN dt.utcoffset ELSE platform.local_utcoffset)

----------------------------------------------------------------------------
(* BaseTDAAPIWrapper: construction and private helpers                     *)

__init__(api_key, session, account_id) ==
    [api_key |-> api_key, session |-> session, account_id |-> account_id]

NoRaise == [type |-> "none", msg |-> ""]

ValueError(m) == [type |-> "ValueError", msg |-> m]

TypeError(m) == [type |-> "TypeError", msg |-> m]

\* a method that returned after handing req to the session
Returned(self, req) == [raised |-> NoRaise, sent |-> <<req>>, self |-> self]

\* a method left by an exception before any session call
Raised(self, exc) == [raised |-> exc, sent |-> <<>>, self |-> self]

\* __account_id raises when the client has no account id; no method calls it
__account_id(self) ==
    IF self.account_id = PyNone
    THEN [raised |-> ValueError("client initialized without account ID"),
          value |-> PyNone]
    ELSE [raised |-> NoRaise, value |-> self.account_id]

__format_datetime(self, dt) ==
    LET tz_offset == strftime_z(dt)
    IN  PyStr(strftime_iso(dt)
              \o (IF Len(tz_offset) > 0 THEN tz_offset
                  ELSE <<"+", "0", "0", "0", "0">>))

__datetime_as_millis(self, dt) == PyInt(timestamp(dt) * 1000)

Host == <<"https://api.tdameritrade.com">>

__get_request(self, path, params) ==
    Returned(self, [verb |-> "GET", url |-> Host \o path,
                    params |-> params, json |-> Absent])

__post_request(self, path, data) ==
    Returned(self, [verb |-> "POST", url |-> Host \o path,
                    params |-> Absent, json |-> data])

__put_request(self, path, data) ==
    Returned(self, [verb |-> "PUT", url |-> Host \o path,
                    params |-> Absent, json |-> data])

__delete_request(self, path) ==
    Returned(self, [verb |-> "DELETE", url |-> Host \o path,
                    params |-> Absent, json |-> Absent])

----------------------------------------------------------------------------
(* Orders                                                                  *)

cancel_order(self, order_id, account_id) ==
    LET path == <<"/v1/accounts/">> \o Str(account_id)
                \o <<"/orders/">> \o Str(order_id)
    IN  __delete_request(self, path)

\* get_order calls __get_request(path) without the params argument, which
\* Python answers with a TypeError before __get_request runs
get_order(self, order_id, account_id) ==
    LET path == <<"/v1/accounts/">> \o Str(account_id)
                \o <<"/orders/">> \o Str(order_id)
    IN  Raised(self, TypeError("__get_request() missing 1 required positional argument: 'params'"))

\* __make_order_query testing the truth values of status and statuses
\* instead of `is not None`
__make_order_query_truthy(self, max_results, from_entered_datetime, to_entered_datetime, status, statuses) ==
    LET from_dt == IF from_entered_datetime = PyNone THEN datetime_min
                   ELSE from_entered_datetime
        to_dt   == IF to_entered_datetime = PyNone THEN utcnow
                   ELSE to_entered_datetime
        p0 == SetItem(SetItem(EmptyDict,
                  "fromEnteredTime", __format_datetime(self, from_dt)),
                  "toEnteredTime", __format_datetime(self, to_dt))
        p1 == IF Truthy(max_results) THEN SetItem(p0, "maxResults", max_results)
              ELSE p0
        p2 == IF Truthy(status) THEN SetItem(p1, "status", status) ELSE p1
        p3 == IF Truthy(statuses)
              THEN SetItem(p2, "status", PyStr(Join(<<",">>, statuses.v)))
              ELSE p2
    IN  IF Truthy(status) /\ Truthy(statuses)
        THEN [raised |-> ValueError("at most one of status or statuses may be set"),
              params |-> PyNone]
        ELSE [raised |-> NoRaise, params |-> PyDict(p3)]

\* the result is [raised, params]: either the exception or the dict
__make_order_query(self, max_results, from_entered_datetime, to_entered_datetime, status, statuses) ==
    LET from_dt == IF from_entered_datetime = PyNone THEN datetime_min
                   ELSE from_entered_datetime
        to_dt   == IF to_entered_datetime = PyNone THEN utcnow
                   ELSE to_entered_datetime
        p0 == SetItem(SetItem(EmptyDict,
                  "fromEnteredTime", __format_datetime(self, from_dt)),
                  "toEnteredTime", __format_datetime(self, to_dt))
        p1 == IF Truthy(max_results) THEN SetItem(p0, "maxResults", max_results)
              ELSE p0
        p2 == IF Truthy(status) THEN SetItem(p1, "status", status) ELSE p1
        p3 == IF Truthy(statuses)
              THEN SetItem(p2, "status", PyStr(Join(<<",">>, statuses.v)))
              ELSE p2
    IN  IF status # PyNone /\ statuses # PyNone
        THEN [raised |-> ValueError("at most one of status or statuses may be set"),
              params |-> PyNone]
        ELSE [raised |-> NoRaise, params |-> PyDict(p3)]

get_orders_by_path(self, account_id, max_results, from_entered_datetime, to_entered_datetime, status, statuses) ==
    LET path == <<"/v1/accounts/">> \o Str(account_id) \o <<"/orders">>
        q    == __make_order_query(self, max_results, from_entered_datetime,
                                   to_entered_datetime, status, statuses)
    IN  IF q.raised # NoRaise THEN Raised(self, q.raised)
        ELSE __get_request(self, path, q.params)

get_orders_by_query(self, max_results, from_entered_datetime, to_entered_datetime, status, statuses) ==
    LET path == <<"/v1/orders">>
        q    == __make_order_query(self, max_results, from_entered_datetime,
                                   to_entered_datetime, status, statuses)
    IN  IF q.raised # NoRaise THEN Raised(self, q.raised)
        ELSE __get_request(self, path, q.params)

place_order(self, account_id, order_spec) ==
    LET path == <<"/v1/accounts/">> \o Str(account_id) \o <<"/orders">>
    IN  __post_request(self, path, order_spec)

replace_order(self, account_id, order_id, order_spec) ==
    LET path == <<"/v1/accounts/">> \o Str(account_id)
                \o <<"/orders/">> \o Str(order_id)
    IN  __post_request(self, path, order_spec)

----------------------------------------------------------------------------
(* Saved orders                                                            *)

create_saved_order(self, account_id, order_spec) ==
    LET path == <<"/v1/accounts/">> \o Str(account_id) \o <<"/savedorders">>
    IN  __post_request(self, path, order_spec)

delete_saved_order(self, account_id, order_id) ==
    LET path == <<"/v1/accounts/">> \o Str(account_id)
                \o <<"/savedorders/">> \o Str(order_id)
    IN  __delete_request(self, path)

get_saved_order(self, account_id, order_id) ==
    LET path == <<"/v1/accounts/">> \o Str(account_id)
                \o <<"/savedorders/">> \o Str(order_id)
    IN  __get_request(self, path, PyDict(EmptyDict))

\* get_saved_orders_by_path remembering the account it was called for
get_saved_orders_by_path_storing(self, account_id) ==
    LET path == <<"/v1/accounts/">> \o Str(account_id) \o <<"/savedorders">>
    IN  __get_request([self EXCEPT !.account_id = account_id], path,
                      PyDict(EmptyDict))

get_saved_orders_by_path(self, account_id) ==
    LET path == <<"/v1/accounts/">> \o Str(account_id) \o <<"/savedorders">>
    IN  __get_request(self, path, PyDict(EmptyDict))

replace_saved_order(self, account_id, order_id, order_spec) ==
    LET path == <<"/v1/accounts/">> \o Str(account_id)
                \o <<"/savedorders/">> \o Str(order_id)
    IN  __put_request(self, path, order_spec)

----------------------------------------------------------------------------
(* Accounts                                                                *)

get_account(self, account_id, fields) ==
    LET params == IF Truthy(fields)
                  THEN SetItem(EmptyDict, "fields", PyStr(Join(<<",">>, fields.v)))
                  ELSE EmptyDict
        path   == <<"/v1/accounts/">> \o Str(account_id)
    IN  __get_request(self, path, PyDict(params))

get_accounts(self, fields) ==
    LET params == IF Truthy(fields)
                  THEN SetItem(EmptyDict, "fields", PyStr(Join(<<",">>, fields.v)))
                  ELSE EmptyDict
        path   == <<"/v1/accounts">>
    IN  __get_request(self, path, PyDict(params))

----------------------------------------------------------------------------
(* Instruments                                                             *)

search_instruments(self, symbol, projection) ==
    LET params == SetItem(SetItem(SetItem(EmptyDict,
                      "apikey", self.api_key),
                      "symbol", symbol),
                      "projection", projection)
        path   == <<"/v1/instruments">>
    IN  __get_request(self, path, PyDict(params))

\* get_instrument without the isinstance check
get_instrument_unchecked(self, cusip) ==
    LET params == SetItem(EmptyDict, "apikey", self.api_key)
        path   == <<"/v1/instruments/">> \o Str(cusip)
    IN  __get_request(self, path, PyDict(params))

get_instrument(self, cusip) ==
    IF ~IsStr(cusip)
    THEN Raised(self, ValueError("CUSIPs must be passed as strings to preserve leading zeroes"))
    ELSE LET params == SetItem(EmptyDict, "apikey", self.api_key)
             path   == <<"/v1/instruments/">> \o Str(cusip)
         IN  __get_request(self, path, PyDict(params))

----------------------------------------------------------------------------
(* Market hours                                                            *)

get_hours_for_multiple_markets(self, markets, date) ==
    LET params == SetItem(SetItem(SetItem(EmptyDict,
                      "apikey", self.api_key),
                      "markets", PyStr(Join(<<",">>, markets.v))),
                      "date", __format_datetime(self, date))
        path   == <<"/v1/marketdata/hours">>
    IN  __get_request(self, path, PyDict(params))

get_hours_for_a_single_market(self, market, date) ==
    LET params == SetItem(SetItem(EmptyDict,
                      "apikey", self.api_key),
                      "date", __format_datetime(self, date))
        path   == <<"/v1/marketdata/">> \o Str(market) \o <<"/hours">>
    IN  __get_request(self, path, PyDict(params))

----------------------------------------------------------------------------
(* Movers                                                                  *)

get_movers(self, index, direction, change) ==
    LET params == SetItem(SetItem(SetItem(EmptyDict,
                      "apikey", self.api_key),
                      "direction", direction),
                      "change", change)
        path   == <<"/v1/marketdata/">> \o Str(index) \o <<"/movers">>
    IN  __get_request(self, path, PyDict(params))

----------------------------------------------------------------------------
(* Option chains                                                           *)

\* params[k] = v when cond, else params unchanged
SetIf(cond, d, k, v) == IF cond THEN SetItem(d, k, v) ELSE d

get_option_chain(self, symbol, contract_type, strike_count, include_quotes, strategy, interval, strike, strike_range, strike_from_date, strike_to_date, volatility, underlying_price, interest_rate, days_to_expiration, exp_month, option_type) ==
    LET p0  == SetItem(SetItem(SetItem(SetItem(SetItem(SetItem(SetItem(EmptyDict,
                   "apikey", self.api_key),
                   "symbol", symbol),
                   "includeQuotes", include_quotes),
                   "contractType", contract_type),
                   "range", strike_range),
                   "expMonth", exp_month),
                   "optionType", option_type)
        p1  == SetIf(strike_count # PyNone, p0, "strikeCount", strike_count)
        p2  == SetIf(strategy # PyNone, p1, "strategy", strategy)
        p3  == SetIf(interval # PyNone, p2, "interval", interval)
        p4  == SetIf(strike # PyNone, p3, "strike", strike)
        p5  == IF strike_from_date # PyNone
               THEN SetItem(p4, "fromDate", __format_datetime(self, strike_from_date))
               ELSE p4
        p6  == IF strike_to_date # PyNone
               THEN SetItem(p5, "toDate", __format_datetime(self, strike_to_date))
               ELSE p5
        p7  == SetIf(volatility # PyNone, p6, "volatility", volatility)
        p8  == SetIf(underlying_price # PyNone, p7, "underlyingPrice", underlying_price)
        p9  == SetIf(interest_rate # PyNone, p8, "interestRate", interest_rate)
        \* the source tests `is None` here, not `is not None`
        p10 == SetIf(days_to_expiration = PyNone, p9, "daysToExpiration", days_to_expiration)
        path == <<"/v1/marketdata/chains">>
    IN  __get_request(self, path, PyDict(p10))

----------------------------------------------------------------------------
(* Price history                                                           *)

get_price_history(self, symbol, period_type, num_periods, frequency_type, frequency, start_date, end_date, need_extended_hours_data) ==
    LET p0 == SetItem(SetItem(SetItem(SetItem(SetItem(EmptyDict,
                  "apikey", self.api_key),
                  "symbol", symbol),
                  "periodType", period_type),
                  "frequency", frequency),
                  "needExtendedHoursData", need_extended_hours_data)
        p1 == SetIf(num_periods # PyNone, p0, "period", num_periods)
        p2 == SetIf(frequency_type # PyNone, p1, "frequencyType", frequency_type)
        p3 == IF start_date # PyNone
              THEN SetItem(p2, "startDate", __datetime_as_millis(self, start_date))
              ELSE p2
        p4 == IF end_date # PyNone
              THEN SetItem(p3, "endDate", __datetime_as_millis(self, end_date))
              ELSE p3
        path == <<"/v1/marketdata/">> \o Str(symbol) \o <<"/pricehistory">>
    IN  __get_request(self, path, PyDict(p4))

----------------------------------------------------------------------------
(* Quotes                                                                  *)

get_quote(self, symbol) ==
    LET params == SetItem(EmptyDict, "apikey", self.api_key)
        path   == <<"/v1/marketdata/">> \o Str(symbol) \o <<"/quotes">>
    IN  __get_request(self, path, PyDict(params))

get_quotes(self, symbols) ==
    LET params == SetItem(SetItem(EmptyDict,
                      "apikey", self.api_key),
                      "symbol", PyStr(Join(<<",">>, symbols.v)))
        path   == <<"/v1/marketdata/quotes">>
    IN  __get_request(self, path, PyDict(params))

----------------------------------------------------------------------------
(* The values callers pass                                                 *)

\* the non-empty lists of at most MaxList elements of S
Lists(S) == { PyList(l) : l \in UNION { [1..k -> S] : k \in 1..MaxList } }

\* an optional list argument: unset, empty, or a list
OptLists(S) == {PyNone, PyList(<<>>)} \cup Lists(S)

ApiKeys == {PyStr(<<"KEY">>)}

CtorAccountIds == {PyNone, PyStr(<<"ACCT1">>)}

AccountArgs == {PyStr(<<"ACCT1">>), PyInt(1001), PyNone}

OrderIds == {PyInt(7), PyStr(<<"0", "0", "7">>)}

OrderSpecs ==
    {PyDict([orderType |-> PyStr(<<"MARKET">>)]),
     PyDict([orderType |-> PyStr(<<"LIMIT">>)])}

DNaive == PyDT(2020, 3, 4, 5, 6, 7, FALSE, 0)

DPlus == PyDT(2020, 3, 4, 5, 6, 7, TRUE, 330)

DMinus == PyDT(2019, 12, 31, 23, 59, 59, TRUE, -480)

DUtc == PyDT(2021, 11, 9, 10, 0, 30, TRUE, 0)

\* a year below 1000, which strftime('%Y') renders by the C library's rule
DOld == PyDT(987, 6, 5, 4, 3, 2, FALSE, 0)

Dates == {DNaive, DPlus, DMinus, DUtc, DOld}

\* datetimes whose epoch milliseconds fit the model checker's integers
ENaive == PyDT(1970, 1, 10, 5, 6, 7, FALSE, 0)

EPlus == PyDT(1970, 1, 20, 0, 0, 0, TRUE, 330)

StatusNames == {PyStr(<<"FILLED">>), PyStr(<<"WORKING">>)}

FieldNames == {PyStr(<<"positions">>), PyStr(<<"orders">>)}

MarketNames == {PyStr(<<"EQUITY">>), PyStr(<<"OPTION">>)}

Symbols == {PyStr(<<"AAPL">>), PyStr(<<"MSFT">>)}

Projections == {PyStr(<<"symbol-search">>), PyStr(<<"fundamental">>)}

Indexes == {PyStr(<<"$DJI">>), PyStr(<<"$SPX.X">>)}

Directions == {PyStr(<<"up">>), PyStr(<<"down">>)}

Changes == {PyStr(<<"percent">>), PyStr(<<"value">>)}

Cusips ==
    {PyStr(<<"0", "0", "1", "2", "3">>), PyStr(<<"1", "2", "3">>),
     PyInt(123), PyNone}

\* keyword arguments of an order query
OrderQueryArgs ==
    [max_results: {PyNone, PyInt(0), PyInt(5)},
     from_entered_datetime: {PyNone, DPlus},
     to_entered_datetime: {PyNone, DNaive},
     status: {PyNone, PyStr(<<>>), PyStr(<<"FILLED">>)},
     statuses: OptLists(StatusNames)]

OptionChainOptionals ==
    {"strike_count", "strategy", "interval", "strike", "strike_from_date",
     "strike_to_date", "volatility", "underlying_price", "interest_rate",
     "days_to_expiration"}

OptionChainArgs ==
  { a \in
    [symbol: {PyStr(<<"AAPL">>)},
     contract_type: {PyStr(<<"ALL">>)},
     strike_count: {PyNone, PyInt(0)},
     include_quotes: {PyBool(FALSE)},
     strategy: {PyNone, PyStr(<<"SINGLE">>)},
     interval: {PyNone, PyInt(5)},
     strike: {PyNone, PyInt(150)},
     strike_range: {PyStr(<<"ALL">>)},
     strike_from_date: {PyNone, DPlus},
     strike_to_date: {PyNone, DNaive},
     volatility: {PyNone, PyInt(30)},
     underlying_price: {PyNone, PyInt(0)},
     interest_rate: {PyNone, PyInt(1)},
     days_to_expiration: {PyNone, PyInt(0), PyInt(30)},
     exp_month: {PyStr(<<"ALL">>)},
     option_type: {PyStr(<<"ALL">>)}] :
    Cardinality({k \in OptionChainOptionals : a[k] # PyNone}) <= MaxProvided }

PriceHistoryArgs ==
    [symbol: {PyStr(<<"AAPL">>)},
     period_type: {PyStr(<<"day">>)},
     num_periods: {PyNone, PyInt(0), PyInt(10)},
     frequency_type: {PyNone, PyStr(<<"minute">>)},
     frequency: {PyInt(1)},
     start_date: {PyNone, ENaive, EPlus},
     end_date: {PyNone, ENaive, EPlus},
     need_extended_hours_data: {PyBool(FALSE)}]

----------------------------------------------------------------------------
(* State                                                                   *)

Threads == {"t1", "t2"}

\* the caller of the sequential specifications
Main == "t1"

NoArgs == [k \in {} |-> PyNone]

IdleFrame ==
    [pc |-> "idle", op |-> "", args |-> NoArgs, now |-> 0 - 1,
     raised |-> NoRaise, built |-> <<>>, sent |-> <<>>]

NoQuery == [valid |-> FALSE, now |-> 0 - 1, to |-> PyNone]

Init ==
    /\ ctor \in [api_key: ApiKeys, session: {"session"},
                 account_id: CtorAccountIds]
    /\ client = __init__(ctor.api_key, ctor.session, ctor.account_id)
    /\ clock = 0
    /\ platform \in [pads_year: BOOLEAN, local_utcoffset: {0, -300}]
    /\ frame = [t \in Threads |-> IdleFrame]
    /\ prevq = NoQuery

\* time passes
Tick ==
    /\ clock < MaxClock
    /\ clock' = clock + 1
    /\ UNCHANGED <<client, ctor, platform, frame, prevq>>

OrderQueryOps == {"get_orders_by_path", "get_orders_by_query"}

\* the clock value a call reads: only an order query without an upper bound
\* evaluates utcnow(); NoClock for a call that reads no clock
NoClock == 0 - 1

ClockRead(op, a) ==
    IF op \in OrderQueryOps /\ a.to_entered_datetime = PyNone THEN clock
    ELSE NoClock

\* caller t is in no call
Idle(t) == frame[t].pc = "idle"

\* caller t has run method op with keyword arguments a to its end, with
\* result r: the method returned or raised, and the session has received
\* what the method sent
Complete(t, op, a, r) ==
    /\ client' = r.self
    /\ frame' = [frame EXCEPT ![t] =
           [pc |-> "done", op |-> op, args |-> a, now |-> ClockRead(op, a),
            raised |-> r.raised, built |-> r.sent, sent |-> r.sent]]
    /\ UNCHANGED <<ctor, clock, platform, prevq>>

\* the caller takes the result and the frame is gone
Return(t) ==
    /\ frame[t].pc = "done"
    /\ frame' = [frame EXCEPT ![t] = IdleFrame]
    /\ UNCHANGED <<client, ctor, clock, platform, prevq>>

Do_cancel_order ==
    /\ Idle(Main)
    /\ \E order_id \in OrderIds, account_id \in AccountArgs :
         Complete(Main, "cancel_order",
             [order_id |-> order_id, account_id |-> account_id],
             cancel_order(client, order_id, account_id))

Do_get_order ==
    /\ Idle(Main)
    /\ \E order_id \in OrderIds, account_id \in AccountArgs :
         Complete(Main, "get_order",
             [order_id |-> order_id, account_id |-> account_id],
             get_order(client, order_id, account_id))

Do_get_orders_by_path ==
    /\ Idle(Main)
    /\ \E account_id \in {PyStr(<<"ACCT1">>)}, q \in OrderQueryArgs :
         Complete(Main, "get_orders_by_path",
             [account_id |-> account_id, max_results |-> q.max_results,
              from_entered_datetime |-> q.from_entered_datetime,
              to_entered_datetime |-> q.to_entered_datetime,
              status |-> q.status, statuses |-> q.statuses],
             get_orders_by_path(client, account_id, q.max_results,
                q.from_entered_datetime, q.to_entered_datetime, q.status,
                q.statuses))

Do_get_orders_by_query ==
    /\ Idle(Main)
    /\ \E q \in OrderQueryArgs :
         Complete(Main, "get_orders_by_query",
             q,
             get_orders_by_query(client, q.max_results,
                q.from_entered_datetime, q.to_entered_datetime, q.status,
                q.statuses))

Do_place_order ==
    /\ Idle(Main)
    /\ \E account_id \in AccountArgs, order_spec \in OrderSpecs :
         Complete(Main, "place_order",
             [account_id |-> account_id, order_spec |-> order_spec],
             place_order(client, account_id, order_spec))

Do_replace_order ==
    /\ Idle(Main)
    /\ \E account_id \in AccountArgs, order_id \in OrderIds,
          order_spec \in OrderSpecs :
         Complete(Main, "replace_order",
             [account_id |-> account_id, order_id |-> order_id,
              order_spec |-> order_spec],
             replace_order(client, account_id, order_id, order_spec))

Do_create_saved_order ==
    /\ Idle(Main)
    /\ \E account_id \in AccountArgs, order_spec \in OrderSpecs :
         Complete(Main, "create_saved_order",
             [account_id |-> account_id, order_spec |-> order_spec],
             create_saved_order(client, account_id, order_spec))

Do_delete_saved_order ==
    /\ Idle(Main)
    /\ \E account_id \in AccountArgs, order_id \in OrderIds :
         Complete(Main, "delete_saved_order",
             [account_id |-> account_id, order_id |-> order_id],
             delete_saved_order(client, account_id, order_id))

Do_get_saved_order ==
    /\ Idle(Main)
    /\ \E account_id \in AccountArgs, order_id \in OrderIds :
         Complete(Main, "get_saved_order",
             [account_id |-> account_id, order_id |-> order_id],
             get_saved_order(client, account_id, order_id))

Do_get_saved_orders_by_path ==
    /\ Idle(Main)
    /\ \E account_id \in AccountArgs :
         Complete(Main, "get_saved_orders_by_path",
             [account_id |-> account_id],
             get_saved_orders_by_path(client, account_id))

Do_replace_saved_order ==
    /\ Idle(Main)
    /\ \E account_id \in AccountArgs, order_id \in OrderIds,
          order_spec \in OrderSpecs :
         Complete(Main, "replace_saved_order",
             [account_id |-> account_id, order_id |-> order_id,
              order_spec |-> order_spec],
             replace_saved_order(client, account_id, order_id, order_spec))

Do_get_account ==
    /\ Idle(Main)
    /\ \E account_id \in AccountArgs, fields \in OptLists(FieldNames) :
         Complete(Main, "get_account",
             [account_id |-> account_id, fields |-> fields],
             get_account(client, account_id, fields))

Do_get_accounts ==
    /\ Idle(Main)
    /\ \E fields \in OptLists(FieldNames) :
         Complete(Main, "get_accounts",
             [fields |-> fields],
             get_accounts(client, fields))

Do_search_instruments ==
    /\ Idle(Main)
    /\ \E symbol \in Symbols, projection \in Projections :
         Complete(Main, "search_instruments",
             [symbol |-> symbol, projection |-> projection],
             search_instruments(client, symbol, projection))

Do_get_instrument ==
    /\ Idle(Main)
    /\ \E cusip \in Cusips :
         Complete(Main, "get_instrument",
             [cusip |-> cusip],
             get_instrument(client, cusip))

Do_get_hours_for_multiple_markets ==
    /\ Idle(Main)
    /\ \E markets \in Lists(MarketNames) \cup {PyList(<<>>)}, date \in Dates :
         Complete(Main, "get_hours_for_multiple_markets",
             [markets |-> markets, date |-> date],
             get_hours_for_multiple_markets(client, markets, date))

Do_get_hours_for_a_single_market ==
    /\ Idle(Main)
    /\ \E market \in MarketNames, date \in Dates :
         Complete(Main, "get_hours_for_a_single_market",
             [market |-> market, date |-> date],
             get_hours_for_a_single_market(client, market, date))

Do_get_movers ==
    /\ Idle(Main)
    /\ \E index \in Indexes, direction \in Directions, change \in Changes :
         Complete(Main, "get_movers",
             [index |-> index, direction |-> direction, change |-> change],
             get_movers(client, index, direction, change))

Do_get_option_chain ==
    /\ Idle(Main)
    /\ \E a \in OptionChainArgs :
         Complete(Main, "get_option_chain",
             a,
             get_option_chain(client, a.symbol, a.contract_type,
                a.strike_count, a.include_quotes, a.strategy, a.interval,
                a.strike, a.strike_range, a.strike_from_date,
                a.strike_to_date, a.volatility, a.underlying_price,
                a.interest_rate, a.days_to_expiration, a.exp_month,
                a.option_type))

Do_get_price_history ==
    /\ Idle(Main)
    /\ \E a \in PriceHistoryArgs :
         Complete(Main, "get_price_history",
             a,
             get_price_history(client, a.symbol, a.period_type,
                a.num_periods, a.frequency_type, a.frequency, a.start_date,
                a.end_date, a.need_extended_hours_data))

Do_get_quote ==
    /\ Idle(Main)
    /\ \E symbol \in Symbols :
         Complete(Main, "get_quote",
             [symbol |-> symbol],
             get_quote(client, symbol))

Do_get_quotes ==
    /\ Idle(Main)
    /\ \E symbols \in Lists(Symbols) \cup {PyList(<<>>)} :
         Complete(Main, "get_quotes",
             [symbols |-> symbols],
             get_quotes(client, symbols))

Next ==
    \/ Do_cancel_order
    \/ Do_get_order
    \/ Do_get_orders_by_path
    \/ Do_get_orders_by_query
    \/ Do_place_order
    \/ Do_replace_order
    \/ Do_create_saved_order
    \/ Do_delete_saved_order
    \/ Do_get_saved_order
    \/ Do_get_saved_orders_by_path
    \/ Do_replace_saved_order
    \/ Do_get_account
    \/ Do_get_accounts
    \/ Do_search_instruments
    \/ Do_get_instrument
    \/ Do_get_hours_for_multiple_markets
    \/ Do_get_hours_for_a_single_market
    \/ Do_get_movers
    \/ Do_get_option_chain
    \/ Do_get_price_history
    \/ Do_get_quote
    \/ Do_get_quotes
    \/ Return(Main)
    \/ Tick

Spec == Init /\ [][Next]_vars

----------------------------------------------------------------------------
(* Successive order queries of one caller: prevq remembers the upper bound *)
(* the previous order query sent when it defaulted it                      *)

ReturnQuery ==
    /\ frame[Main].pc = "done"
    /\ frame' = [frame EXCEPT ![Main] = IdleFrame]
    /\ prevq' =
          IF /\ frame[Main].op \in OrderQueryOps
             /\ Len(frame[Main].sent) = 1
             /\ frame[Main].args.to_entered_datetime = PyNone
          THEN [valid |-> TRUE, now |-> frame[Main].now,
                to |-> frame[Main].sent[1].params.v["toEnteredTime"]]
          ELSE NoQuery
    /\ UNCHANGED <<client, ctor, clock, platform>>

NextQueries ==
    \/ Do_get_orders_by_path
    \/ Do_get_orders_by_query
    \/ ReturnQuery
    \/ Tick

SpecQueries == Init /\ [][NextQueries]_vars

----------------------------------------------------------------------------
(* Several callers on one client.  A call takes two steps, so that calls   *)
(* of different callers interleave: the method body up to its session call *)
(* (arguments bound, clock and instance read, request built or exception   *)
(* raised), then the session call itself.                                  *)

TAccounts == {PyStr(<<"ACCT1">>)}

TOrderIds == {PyInt(7)}

TOrderSpecs == {PyDict([orderType |-> PyStr(<<"MARKET">>)])}

TSymbols == {PyStr(<<"AAPL">>)}

TQueries ==
    { q \in OrderQueryArgs :
        /\ q.max_results = PyNone
        /\ q.from_entered_datetime = PyNone
        /\ q.to_entered_datetime = PyNone
        /\ q.status \in {PyNone, PyStr(<<"FILLED">>)}
        /\ q.statuses \in {PyNone, PyList(<<>>)} }

TOptionChainArgs ==
    { a \in OptionChainArgs : \A k \in OptionChainOptionals : a[k] = PyNone }

TPriceHistoryArgs ==
    { a \in PriceHistoryArgs :
        /\ a.num_periods = PyNone /\ a.frequency_type = PyNone
        /\ a.start_date = PyNone /\ a.end_date = PyNone }

\* caller t has run method op up to its session call, with result r
Begin(t, op, a, r) ==
    /\ client' = r.self
    /\ frame' = [frame EXCEPT ![t] =
           [pc |-> IF r.raised = NoRaise THEN "built" ELSE "done",
            op |-> op, args |-> a, now |-> ClockRead(op, a),
            raised |-> r.raised, built |-> r.sent, sent |-> <<>>]]
    /\ UNCHANGED <<ctor, clock, platform, prevq>>

\* the session call of caller t: the session receives the request
Send(t) ==
    /\ frame[t].pc = "built"
    /\ frame' = [frame EXCEPT ![t].pc = "done", ![t].sent = frame[t].built]
    /\ UNCHANGED <<client, ctor, clock, platform, prevq>>

T_cancel_order(t) ==
    /\ Idle(t)
    /\ \E order_id \in TOrderIds, account_id \in TAccounts :
         Begin(t, "cancel_order",
             [order_id |-> order_id, account_id |-> account_id],
             cancel_order(client, order_id, account_id))

T_get_order(t) ==
    /\ Idle(t)
    /\ \E order_id \in TOrderIds, account_id \in TAccounts :
         Begin(t, "get_order",
             [order_id |-> order_id, account_id |-> account_id],
             get_order(client, order_id, account_id))

T_get_orders_by_path(t) ==
    /\ Idle(t)
    /\ \E account_id \in TAccounts, q \in TQueries :
         Begin(t, "get_orders_by_path",
             [account_id |-> account_id, max_results |-> q.max_results,
              from_entered_datetime |-> q.from_entered_datetime,
              to_entered_datetime |-> q.to_entered_datetime,
              status |-> q.status, statuses |-> q.statuses],
             get_orders_by_path(client, account_id, q.max_results,
                q.from_entered_datetime, q.to_entered_datetime, q.status,
                q.statuses))

T_get_orders_by_query(t) ==
    /\ Idle(t)
    /\ \E q \in TQueries :
         Begin(t, "get_orders_by_query",
             q,
             get_orders_by_query(client, q.max_results,
                q.from_entered_datetime, q.to_entered_datetime, q.status,
                q.statuses))

T_place_order(t) ==
    /\ Idle(t)
    /\ \E account_id \in TAccounts, order_spec \in TOrderSpecs :
         Begin(t, "place_order",
             [account_id |-> account_id, order_spec |-> order_spec],
             place_order(client, account_id, order_spec))

T_replace_order(t) ==
    /\ Idle(t)
    /\ \E account_id \in TAccounts, order_id \in TOrderIds,
          order_spec \in TOrderSpecs :
         Begin(t, "replace_order",
             [account_id |-> account_id, order_id |-> order_id,
              order_spec |-> order_spec],
             replace_order(client, account_id, order_id, order_spec))

T_create_saved_order(t) ==
    /\ Idle(t)
    /\ \E account_id \in TAccounts, order_spec \in TOrderSpecs :
         Begin(t, "create_saved_order",
             [account_id |-> account_id, order_spec |-> order_spec],
             create_saved_order(client, account_id, order_spec))

T_delete_saved_order(t) ==
    /\ Idle(t)
    /\ \E account_id \in TAccounts, order_id \in TOrderIds :
         Begin(t, "delete_saved_order",
             [account_id |-> account_id, order_id |-> order_id],
             delete_saved_order(client, account_id, order_id))

T_get_saved_order(t) ==
    /\ Idle(t)
    /\ \E account_id \in TAccounts, order_id \in TOrderIds :
         Begin(t, "get_saved_order",
             [account_id |-> account_id, order_id |-> order_id],
             get_saved_order(client, account_id, order_id))

T_get_saved_orders_by_path(t) ==
    /\ Idle(t)
    /\ \E account_id \in TAccounts :
         Begin(t, "get_saved_orders_by_path",
             [account_id |-> account_id],
             get_saved_orders_by_path(client, account_id))

T_replace_saved_order(t) ==
    /\ Idle(t)
    /\ \E account_id \in TAccounts, order_id \in TOrderIds,
          order_spec \in TOrderSpecs :
         Begin(t, "replace_saved_order",
             [account_id |-> account_id, order_id |-> order_id,
              order_spec |-> order_spec],
             replace_saved_order(client, account_id, order_id, order_spec))

T_get_account(t) ==
    /\ Idle(t)
    /\ \E account_id \in TAccounts, fields \in {PyNone} :
         Begin(t, "get_account",
             [account_id |-> account_id, fields |-> fields],
             get_account(client, account_id, fields))

T_get_accounts(t) ==
    /\ Idle(t)
    /\ \E fields \in {PyNone} :
         Begin(t, "get_accounts",
             [fields |-> fields],
             get_accounts(client, fields))

T_search_instruments(t) ==
    /\ Idle(t)
    /\ \E symbol \in TSymbols, projection \in {PyStr(<<"fundamental">>)} :
         Begin(t, "search_instruments",
             [symbol |-> symbol, projection |-> projection],
             search_instruments(client, symbol, projection))

T_get_instrument(t) ==
    /\ Idle(t)
    /\ \E cusip \in {PyStr(<<"0", "0", "1", "2", "3">>), PyInt(123)} :
         Begin(t, "get_instrument",
             [cusip |-> cusip],
             get_instrument(client, cusip))

T_get_hours_for_multiple_markets(t) ==
    /\ Idle(t)
    /\ \E markets \in {PyList(<<PyStr(<<"EQUITY">>)>>)}, date \in {DPlus} :
         Begin(t, "get_hours_for_multiple_markets",
             [markets |-> markets, date |-> date],
             get_hours_for_multiple_markets(client, markets, date))

T_get_hours_for_a_single_market(t) ==
    /\ Idle(t)
    /\ \E market \in {PyStr(<<"EQUITY">>)}, date \in {DPlus} :
         Begin(t, "get_hours_for_a_single_market",
             [market |-> market, date |-> date],
             get_hours_for_a_single_market(client, market, date))

T_get_movers(t) ==
    /\ Idle(t)
    /\ \E index \in {PyStr(<<"$DJI">>)}, direction \in {PyStr(<<"up">>)},
          change \in {PyStr(<<"percent">>)} :
         Begin(t, "get_movers",
             [index |-> index, direction |-> direction, change |-> change],
             get_movers(client, index, direction, change))

T_get_option_chain(t) ==
    /\ Idle(t)
    /\ \E a \in TOptionChainArgs :
         Begin(t, "get_option_chain",
             a,
             get_option_chain(client, a.symbol, a.contract_type,
                a.strike_count, a.include_quotes, a.strategy, a.interval,
                a.strike, a.strike_range, a.strike_from_date,
                a.strike_to_date, a.volatility, a.underlying_price,
                a.interest_rate, a.days_to_expiration, a.exp_month,
                a.option_type))

T_get_price_history(t) ==
    /\ Idle(t)
    /\ \E a \in TPriceHistoryArgs :
         Begin(t, "get_price_history",
             a,
             get_price_history(client, a.symbol, a.period_type,
                a.num_periods, a.frequency_type, a.frequency, a.start_date,
                a.end_date, a.need_extended_hours_data))

T_get_quote(t) ==
    /\ Idle(t)
    /\ \E symbol \in TSymbols :
         Begin(t, "get_quote",
             [symbol |-> symbol],
             get_quote(client, symbol))

T_get_quotes(t) ==
    /\ Idle(t)
    /\ \E symbols \in {PyList(<<PyStr(<<"AAPL">>)>>)} :
         Begin(t, "get_quotes",
             [symbols |-> symbols],
             get_quotes(client, symbols))

NextThreads ==
    \/ \E t \in Threads :
         \/ T_cancel_order(t)
         \/ T_get_order(t)
         \/ T_get_orders_by_path(t)
         \/ T_get_orders_by_query(t)
         \/ T_place_order(t)
         \/ T_replace_order(t)
         \/ T_create_saved_order(t)
         \/ T_delete_saved_order(t)
         \/ T_get_saved_order(t)
         \/ T_get_saved_orders_by_path(t)
         \/ T_replace_saved_order(t)
         \/ T_get_account(t)
         \/ T_get_accounts(t)
         \/ T_search_instruments(t)
         \/ T_get_instrument(t)
         \/ T_get_hours_for_multiple_markets(t)
         \/ T_get_hours_for_a_single_market(t)
         \/ T_get_movers(t)
         \/ T_get_option_chain(t)
         \/ T_get_price_history(t)
         \/ T_get_quote(t)
         \/ T_get_quotes(t)
         \/ Send(t)
         \/ Return(t)
    \/ Tick

SpecThreads == Init /\ [][NextThreads]_vars

----------------------------------------------------------------------------
(* Vocabulary of the claims                                                *)

\* the frame of the sequential caller
F == frame[Main]

\* the call of frame f has ended
Done(f) == f.pc = "done"

\* the query mapping of the one request frame f handed to the session
Query(f) == f.sent[1].params.v

\* the specification's names for the two ValueErrors
InvalidState == ValueError("client initialized without account ID")

InvalidArgumentStatus == ValueError("at most one of status or statuses may be set")

InvalidArgumentCusip ==
    ValueError("CUSIPs must be passed as strings to preserve leading zeroes")

AccountScopedOps ==
    {"cancel_order", "get_order", "get_orders_by_path", "place_order",
     "replace_order", "create_saved_order", "delete_saved_order",
     "get_saved_order", "replace_saved_order", "get_saved_orders_by_path",
     "get_account"}

\* <<argument, query key>> for the optional arguments of operation op
OptionalKeys(op) ==
    CASE op \in OrderQueryOps ->
            {<<"max_results", "maxResults">>, <<"status", "status">>,
             <<"statuses", "status">>}
      [] op \in {"get_account", "get_accounts"} -> {<<"fields", "fields">>}
      [] op = "get_option_chain" ->
            {<<"strike_count", "strikeCount">>, <<"strategy", "strategy">>,
             <<"interval", "interval">>, <<"strike", "strike">>,
             <<"strike_from_date", "fromDate">>, <<"strike_to_date", "toDate">>,
             <<"volatility", "volatility">>,
             <<"underlying_price", "underlyingPrice">>,
             <<"interest_rate", "interestRate">>,
             <<"days_to_expiration", "daysToExpiration">>}
      [] op = "get_price_history" ->
            {<<"num_periods", "period">>, <<"frequency_type", "frequencyType">>,
             <<"start_date", "startDate">>, <<"end_date", "endDate">>}
      [] OTHER -> {}

\* the arguments of frame f that feed query key k
Feeding(f, k) == {pr[1] : pr \in {q \in OptionalKeys(f.op) : q[2] = k}}

\* the form in which a supplied optional argument is to be sent
SentForm(arg, v) ==
    CASE arg \in {"statuses", "fields"} -> PyStr(Join(<<",">>, v.v))
      [] arg \in {"strike_from_date", "strike_to_date"} ->
            __format_datetime(client, v)
      [] arg \in {"start_date", "end_date"} -> __datetime_as_millis(client, v)
      [] OTHER -> v

VerbOf(op) ==
    CASE op \in {"cancel_order", "delete_saved_order"} -> "DELETE"
      [] op \in {"place_order", "replace_order", "create_saved_order"} -> "POST"
      [] op = "replace_saved_order" -> "PUT"
      [] OTHER -> "GET"

\* the arguments of frame f are ones the operation accepts
ValidCall(f) ==
    /\ f.op \in OrderQueryOps =>
          (f.args.status = PyNone \/ f.args.statuses = PyNone)
    /\ f.op = "get_instrument" => IsStr(f.args.cusip)
    /\ f.op \in AccountScopedOps => f.args.account_id # PyNone

----------------------------------------------------------------------------
(* Claims                                                                  *)

\* C1: an account-scoped operation on a client constructed without an
\* account identifier fails with InvalidState and sends no request.
C1_NoAccountIdFails ==
    (Done(F) /\ F.op \in AccountScopedOps /\ ctor.account_id = PyNone)
        => (F.raised = InvalidState /\ F.sent = <<>>)

\* C2: the query mapping holds no key for an optional parameter the caller
\* left unset.
C2_UnsetOptionalsAbsent ==
    (Done(F) /\ Len(F.sent) = 1) =>
        \A pr \in OptionalKeys(F.op) :
            (\A arg \in Feeding(F, pr[2]) : F.args[arg] = PyNone)
                => pr[2] \notin DOMAIN Query(F)

\* C3: an order query given both status and statuses (both not None, empty
\* values included) raises InvalidArgument and sends no request.
C3_BothStatusFiltersRejected ==
    (Done(F) /\ F.op \in OrderQueryOps
        /\ F.args.status # PyNone /\ F.args.statuses # PyNone)
        => (F.raised = InvalidArgumentStatus /\ F.sent = <<>>)

C3_Witness ==
    /\ Done(F) /\ F.op = "get_orders_by_path"
    /\ F.args.status = PyStr(<<>>) /\ F.args.statuses = PyList(<<>>)
    /\ F.args.max_results = PyInt(5) /\ F.args.to_entered_datetime = DNaive
    /\ F.raised = InvalidArgumentStatus /\ F.sent = <<>>

\* C4: every operation called with valid arguments hands exactly one request
\* to the session, with the verb fixed for that operation.
C4_ExactlyOneRequest ==
    (Done(F) /\ ValidCall(F))
        => (Len(F.sent) = 1 /\ F.sent[1].verb = VerbOf(F.op))

\* C5: get_instrument rejects a cusip that is not a str with InvalidArgument
\* and no request; for a str it sends GET /v1/instruments/<cusip>, the
\* characters unchanged, with query exactly {apikey: the client's key}.
C5_GetInstrument ==
    (Done(F) /\ F.op = "get_instrument") =>
        IF F.args.cusip.ty = "str"
        THEN /\ F.raised = NoRaise
             /\ F.sent = << [verb |-> "GET",
                             url |-> <<"https://api.tdameritrade.com",
                                       "/v1/instruments/">> \o F.args.cusip.v,
                             params |-> PyDict([apikey |-> ctor.api_key]),
                             json |-> Absent] >>
        ELSE F.raised = InvalidArgumentCusip /\ F.sent = <<>>

C5_Witness ==
    /\ Done(F) /\ F.op = "get_instrument"
    /\ F.args.cusip = PyStr(<<"0", "0", "1", "2", "3">>)
    /\ Len(F.sent) = 1
    /\ F.sent[1].url = <<"https://api.tdameritrade.com", "/v1/instruments/",
                          "0", "0", "1", "2", "3">>

\* <<argument, query key>> for the list-valued arguments of operation op
ListKeys(op) ==
    CASE op \in OrderQueryOps -> {<<"statuses", "status">>}
      [] op = "get_hours_for_multiple_markets" -> {<<"markets", "markets">>}
      [] op = "get_quotes" -> {<<"symbols", "symbol">>}
      [] op \in {"get_account", "get_accounts"} -> {<<"fields", "fields">>}
      [] OTHER -> {}

RECURSIVE SplitAtCommas(_, _)
\* the pieces of token sequence s between its "," tokens; acc is the piece
\* being read
SplitAtCommas(s, acc) ==
    IF Len(s) = 0 THEN <<acc>>
    ELSE IF Head(s) = "," THEN <<acc>> \o SplitAtCommas(Tail(s), <<>>)
    ELSE SplitAtCommas(Tail(s), acc \o <<Head(s)>>)

\* C7: a list-valued parameter given as a non-empty sequence is sent as one
\* string: its elements in the caller's order, each once, separated by
\* commas; get_quotes(["AAPL", "MSFT"]) sends GET /v1/marketdata/quotes with
\* query exactly {apikey: key, symbol: "AAPL,MSFT"}.
C7_ListsCommaJoined ==
    (Done(F) /\ Len(F.sent) = 1) =>
        /\ \A pr \in ListKeys(F.op) :
              (F.args[pr[1]].ty = "list" /\ Len(F.args[pr[1]].v) > 0) =>
                 /\ pr[2] \in DOMAIN Query(F)
                 /\ Query(F)[pr[2]].ty = "str"
                 /\ SplitAtCommas(Query(F)[pr[2]].v, <<>>)
                       = [i \in 1..Len(F.args[pr[1]].v) |-> F.args[pr[1]].v[i].v]
        /\ (F.op = "get_quotes"
              /\ F.args.symbols = PyList(<<PyStr(<<"AAPL">>), PyStr(<<"MSFT">>)>>))
              => F.sent = << [verb |-> "GET",
                              url |-> <<"https://api.tdameritrade.com",
                                        "/v1/marketdata/quotes">>,
                              params |-> PyDict([apikey |-> ctor.api_key,
                                  symbol |-> PyStr(<<"AAPL", ",", "MSFT">>)]),
                              json |-> Absent] >>

C7_Witness ==
    /\ Done(F) /\ F.op = "get_quotes"
    /\ F.args.symbols = PyList(<<PyStr(<<"AAPL">>), PyStr(<<"MSFT">>)>>)
    /\ Len(F.sent) = 1
    /\ Query(F)["symbol"] = PyStr(<<"AAPL", ",", "MSFT">>)

\* <<query key, datetime>> for the values of frame f the ISO formatter made
IsoInputs(f) ==
    CASE f.op \in OrderQueryOps ->
            {<<"fromEnteredTime",
               IF f.args.from_entered_datetime = PyNone THEN datetime_min
               ELSE f.args.from_entered_datetime>>,
             <<"toEnteredTime",
               IF f.args.to_entered_datetime = PyNone THEN utc_at(f.now)
               ELSE f.args.to_entered_datetime>>}
      [] f.op \in {"get_hours_for_multiple_markets",
                   "get_hours_for_a_single_market"} -> {<<"date", f.args.date>>}
      [] f.op = "get_option_chain" ->
            (IF f.args.strike_from_date = PyNone THEN {}
             ELSE {<<"fromDate", f.args.strike_from_date>>})
            \cup
            (IF f.args.strike_to_date = PyNone THEN {}
             ELSE {<<"toDate", f.args.strike_to_date>>})
      [] OTHER -> {}

\* the two digits of k < 100
TwoDigits(k) == <<DigitChars[(k \div 10) + 1], DigitChars[(k % 10) + 1]>>

\* the offset a formatted datetime is to end in
OffsetTokens(dt) ==
    IF ~dt.aware THEN <<"+", "0", "0", "0", "0">>
    ELSE LET a == IF dt.utcoffset < 0 THEN 0 - dt.utcoffset ELSE dt.utcoffset
         IN  <<IF dt.utcoffset < 0 THEN "-" ELSE "+">>
             \o TwoDigits(a \div 60) \o TwoDigits(a % 60)

\* v is ...-MM-DDTHH:MM:SS of dt followed by dt's offset, whatever stands
\* for the year
IsoTail(v, dt) ==
    LET n == Len(v)
        m == n - 5
    IN  /\ n >= 21
        /\ SubSeq(v, m + 1, n) = OffsetTokens(dt)
        /\ SubSeq(v, m - 14, m) =
              <<"-">> \o TwoDigits(dt.month) \o <<"-">> \o TwoDigits(dt.day)
              \o <<"T">> \o TwoDigits(dt.hour) \o <<":">> \o TwoDigits(dt.minute)
              \o <<":">> \o TwoDigits(dt.second)

\* v is YYYY-MM-DDTHH:MM:SS of dt followed by dt's offset
IsoShape(v, dt) ==
    /\ IsoTail(v, dt)
    /\ SubSeq(v, 1, Len(v) - 20) =
          TwoDigits(dt.year \div 100) \o TwoDigits(dt.year % 100)

\* the price-history bounds of frame f are integers of epoch milliseconds
MillisBounds(f) ==
    f.op = "get_price_history" =>
        /\ f.args.start_date # PyNone =>
              Query(f)["startDate"] = PyInt(timestamp(f.args.start_date) * 1000)
        /\ f.args.end_date # PyNone =>
              Query(f)["endDate"] = PyInt(timestamp(f.args.end_date) * 1000)
        \* 1970-01-20T00:00:00+0530 is 1621800 s after the epoch
        /\ f.args.start_date = EPlus =>
              Query(f)["startDate"] = PyInt(1621800000)

\* C9: every value the ISO formatter produced (order-query bounds, market
\* hours dates, option-chain from/to dates) is YYYY-MM-DDTHH:MM:SS followed
\* by +0000 for a datetime without offset and by the datetime's own offset
\* otherwise; price-history start/end are integers of epoch milliseconds.
C9_IsoFormatAndMillis ==
    (Done(F) /\ Len(F.sent) = 1) =>
        /\ \A pr \in IsoInputs(F) :
              /\ pr[1] \in DOMAIN Query(F)
              /\ Query(F)[pr[1]].ty = "str"
              /\ IsoShape(Query(F)[pr[1]].v, pr[2])
        /\ MillisBounds(F)

\* What holds of the formatter in place of C9: the offset and everything
\* from the month on are as C9 says for every datetime, and the year is
\* YYYY from the year 1000 on; strftime('%Y') of an earlier year has as
\* many digits as the C library gives it.
IsoFormatFromYear1000 ==
    (Done(F) /\ Len(F.sent) = 1) =>
        /\ \A pr \in IsoInputs(F) :
              /\ pr[1] \in DOMAIN Query(F)
              /\ Query(F)[pr[1]].ty = "str"
              /\ IsoTail(Query(F)[pr[1]].v, pr[2])
              /\ (pr[2].year >= 1000 \/ platform.pads_year)
                    => IsoShape(Query(F)[pr[1]].v, pr[2])
        /\ MillisBounds(F)

\* C10: an optional parameter's key is in the query mapping, with the
\* supplied value in its sent form, if and only if the caller supplied a
\* value other than None.
C10_ProvidedIffPresent ==
    (Done(F) /\ Len(F.sent) = 1) =>
        \A pr \in OptionalKeys(F.op) :
            /\ F.args[pr[1]] # PyNone =>
                  /\ pr[2] \in DOMAIN Query(F)
                  /\ Query(F)[pr[2]] = SentForm(pr[1], F.args[pr[1]])
            /\ pr[2] \in DOMAIN Query(F) =>
                  \E arg \in Feeding(F, pr[2]) : F.args[arg] # PyNone

\* C8: an order query without time bounds sends the formatted minimum
\* datetime as fromEnteredTime and the formatted clock value of that call as
\* toEnteredTime; the default is read anew in every call, so a later query
\* sends a later toEnteredTime; a supplied bound is sent as given.
C8_DefaultTimeBounds ==
    (Done(F) /\ F.op \in OrderQueryOps /\ Len(F.sent) = 1) =>
        /\ Query(F)["fromEnteredTime"] =
              IF F.args.from_entered_datetime = PyNone
              THEN __format_datetime(client, datetime_min)
              ELSE __format_datetime(client, F.args.from_entered_datetime)
        /\ Query(F)["toEnteredTime"] =
              IF F.args.to_entered_datetime = PyNone
              THEN __format_datetime(client, utc_at(F.now))
              ELSE __format_datetime(client, F.args.to_entered_datetime)
        /\ (F.args.to_entered_datetime = PyNone /\ prevq.valid
              /\ prevq.now < F.now)
              => Query(F)["toEnteredTime"] # prevq.to

C8_Witness ==
    /\ Done(F) /\ F.op = "get_orders_by_query" /\ Len(F.sent) = 1
    /\ F.args.from_entered_datetime = PyNone
    /\ F.args.to_entered_datetime = PyNone
    /\ prevq.valid /\ prevq.now = 0 /\ F.now = 1
    /\ prevq.to = PyStr(<<"2", "0", "2", "0", "-", "0", "1", "-", "0", "1",
                           "T", "0", "0", ":", "0", "0", ":", "0", "0",
                           "+", "0", "0", "0", "0">>)
    /\ Query(F)["toEnteredTime"] =
          PyStr(<<"2", "0", "2", "0", "-", "0", "1", "-", "0", "1",
                  "T", "0", "0", ":", "0", "0", ":", "0", "1",
                  "+", "0", "0", "0", "0">>)

\* C6: whatever calls the callers make, succeed or fail, and however they
\* interleave, the instance state is what the constructor set; and calls with
\* the same arguments and clock reading build the same request whatever the
\* other caller did before or meanwhile.
C6_InstanceStateFixed ==
    /\ client = [api_key |-> ctor.api_key, session |-> ctor.session,
                 account_id |-> ctor.account_id]
    /\ \A t \in Threads, u \in Threads :
          (/\ frame[t].pc \in {"built", "done"}
           /\ frame[u].pc \in {"built", "done"}
           /\ frame[t].op = frame[u].op
           /\ frame[t].args = frame[u].args
           /\ frame[t].now = frame[u].now)
              => (frame[t].raised = frame[u].raised
                  /\ frame[t].built = frame[u].built)

C6_Witness ==
    /\ ctor.account_id = PyNone
    /\ frame["t1"].pc = "built" /\ frame["t1"].op = "get_orders_by_path"
    /\ frame["t2"].pc = "done" /\ frame["t2"].op = "get_saved_orders_by_path"
    /\ Len(frame["t2"].sent) = 1
    /\ client.account_id = PyNone

====
